---- MODULE Spec2Model ----
(***************************************************************************)
(* Model of smvk/mergeFiles.py: merging the main-record and archive-card   *)
(* datasets of two SMVK museums.                                           *)
(*                                                                         *)
(* Representation.  A Python str is a sequence of one-character strings,   *)
(* so that '{}/{}'.format(a, b), +=, strip, rstrip and lstrip are computed *)
(* on characters.  A Python list of str is a sequence of such sequences.   *)
(* The empty str and the empty list are both << >>, the one falsy value a  *)
(* loaded field can have.  A dict that is iterated is a sequence of        *)
(* [k, v] items in insertion order; a dict that is only looked up by key   *)
(* (candidates, duplicates) is a function.                                 *)
(*                                                                         *)
(* Records are values here and objects in Python.  merge_dupe changes      *)
(* orig_entry in place, which the model writes back under the key it was   *)
(* read from.  It also changes the ext_ids list of dupe_entry, and a list  *)
(* adopted from dupe_entry is shared by both records; a merged dupe_entry  *)
(* is never stored in main_data nor read again by merge_data, so dupe_data *)
(* is kept as loaded.                                                      *)
(***************************************************************************)
EXTENDS Integers, Sequences, FiniteSets, TLC

VARIABLES
    main_data,          \* data_files['main_data'], mutated by merge_data
    archive_data,       \* data_files['archive_data'], mutated by merge_data
    dupe_data,          \* data_files['dupe_data']
    dupe_archive_data,  \* data_files['dupe_archive_data']
    candidates,         \* merge_data local: ext_id -> candidate
    duplicates,         \* merge_data local: dupe photo_id -> candidate
    pc,                 \* position in merge_data / merge_dupe
    i,                  \* items of dupe_data processed so far
    j,                  \* items of dupe_archive_data processed so far
    error_log,          \* keys passed to pywikibot.error, in order
    warning_log,        \* photo ids passed to pywikibot.warning, in order
    loaded,             \* history: the four datasets as loaded
    steps,              \* history: the loop passes made so far, in order
    csv_files,          \* main: the csv file each file option names
    output,             \* main: the csv files written so far, in order
    args,               \* main: the command-line arguments
    settings            \* main: the options load_settings returned

vars == <<main_data, archive_data, dupe_data, dupe_archive_data, candidates,
          duplicates, pc, i, j, error_log, warning_log, loaded, steps, csv_files,
          output, args, settings>>

----------------------------------------------------------------------------
(* Sequences, str and dict helpers                                         *)

Range(s) == {s[n] : n \in DOMAIN s}

InSeq(x, s) == \E n \in DOMAIN s : s[n] = x

\* list.remove(x): drops the first occurrence; the callers catch the
\* ValueError raised when x is absent, which leaves the list as it was.
RemoveFirst(s, x) ==
    IF InSeq(x, s)
    THEN LET n == CHOOSE m \in DOMAIN s : s[m] = x /\ \A l \in 1..(m - 1) : s[l] # x
         IN SubSeq(s, 1, n - 1) \o SubSeq(s, n + 1, Len(s))
    ELSE s

\* list(set(...)): the elements of S once each, in an order Python does not fix.
Orderings(S) ==
    {s \in [1..Cardinality(S) -> S] : \A a, b \in 1..Cardinality(S) : s[a] = s[b] => a = b}

\* str.lstrip(chars) / str.rstrip(chars) / str.strip() (whitespace)
RECURSIVE LStrip(_, _)
LStrip(s, chars) ==
    IF s # << >> /\ s[1] \in chars THEN LStrip(Tail(s), chars) ELSE s

RECURSIVE RStrip(_, _)
RStrip(s, chars) ==
    IF s # << >> /\ s[Len(s)] \in chars THEN RStrip(SubSeq(s, 1, Len(s) - 1), chars) ELSE s

Whitespace == {" "}

Strip(s) == LStrip(RStrip(s, Whitespace), Whitespace)

Item(key, val) == [k |-> key, v |-> val]

Keys(d) == {d[n].k : n \in DOMAIN d}

Values(d) == [n \in DOMAIN d |-> d[n].v]

Get(d, key) == d[CHOOSE n \in DOMAIN d : d[n].k = key].v

\* d[key] = val: an existing key keeps its position, a new key goes last.
\* Put with the value stored under every key when the key is there.
Put_under_every_key(d, key, val) ==
    IF key \in Keys(d)
    THEN [n \in DOMAIN d |-> Item(d[n].k, val)]
    ELSE Append(d, Item(key, val))

Put(d, key, val) ==
    IF key \in Keys(d)
    THEN [n \in DOMAIN d |-> IF d[n].k = key THEN Item(key, val) ELSE d[n]]
    ELSE Append(d, Item(key, val))

----------------------------------------------------------------------------
(* mergeFiles.py                                                           *)

LABEL_DELIMITER == <<"!">>

options == [label_delimiter |-> LABEL_DELIMITER]

\* The main schema has 24 columns; the model keeps the three identity
\* fields, ext_ids, date, license, one other list column and one free-text
\* column: one field for each branch of merge_dupe.
Fields == {"photo_id", "db_id", "museum_obj", "ext_ids", "date", "license",
           "motivord", "description_sv"}

ListFields == {"ext_ids", "date", "motivord"}

PD == <<"P", "D">>

cc0 == <<"c", "c", "0">>

\* None, as returned by identify_dupe_id and stored in a fresh candidate: it
\* is only tested for truth, where it behaves as the empty str.
None == << >>

\* '{}/{}'.format(entry.get('museum_obj'), entry.get('db_id'))
long_id(entry) == entry.museum_obj \o <<"/">> \o entry.db_id

\* populate_candidates_step keeping the candidate an external id already
\* has.
populate_candidates_step_keep_first(cands, entry) ==
    IF entry.ext_ids = << >>
    THEN cands
    ELSE [e \in (DOMAIN cands) \cup Range(entry.ext_ids) |->
            IF e \in DOMAIN cands
            THEN cands[e]
            ELSE [orig_photo_id |-> entry.photo_id,
                  orig_long_id |-> long_id(entry),
                  dupe_photo_id |-> None,
                  dupe_long_id |-> e]]

populate_candidates_step(cands, entry) ==
    IF entry.ext_ids = << >>
    THEN cands
    ELSE [e \in (DOMAIN cands) \cup Range(entry.ext_ids) |->
            IF e \in Range(entry.ext_ids)
            THEN [orig_photo_id |-> entry.photo_id,
                  orig_long_id |-> long_id(entry),
                  dupe_photo_id |-> None,
                  dupe_long_id |-> e]
            ELSE cands[e]]

RECURSIVE populate_candidates_from(_, _)
populate_candidates_from(cands, values) ==
    IF values = << >>
    THEN cands
    ELSE populate_candidates_from(populate_candidates_step(cands, Head(values)),
                                  Tail(values))

populate_candidates(data) == populate_candidates_from(<< >>, Values(data))

\* identify_dupe_id without its return statement: the candidate is moved,
\* the caller gets None.
identify_dupe_id_no_return(entry, cands, dups) ==
    IF long_id(entry) \in DOMAIN cands
    THEN LET candidate == [cands[long_id(entry)] EXCEPT !.dupe_photo_id = entry.photo_id]
         IN [result |-> None,
             candidates |-> [e \in (DOMAIN cands) \ {long_id(entry)} |-> cands[e]],
             duplicates |-> [p \in (DOMAIN dups) \cup {entry.photo_id} |->
                                IF p = entry.photo_id THEN candidate ELSE dups[p]]]
    ELSE [result |-> None, candidates |-> cands, duplicates |-> dups]

\* identify_dupe_id reading the candidate with get instead of pop.
identify_dupe_id_no_pop(entry, cands, dups) ==
    IF long_id(entry) \in DOMAIN cands
    THEN LET candidate == [cands[long_id(entry)] EXCEPT !.dupe_photo_id = entry.photo_id]
         IN [result |-> candidate.orig_photo_id,
             candidates |-> cands,
             duplicates |-> [p \in (DOMAIN dups) \cup {entry.photo_id} |->
                                IF p = entry.photo_id THEN candidate ELSE dups[p]]]
    ELSE [result |-> None, candidates |-> cands, duplicates |-> dups]

\* identify_dupe_id without the assignment to candidate['dupe_photo_id'].
identify_dupe_id_no_photo_id(entry, cands, dups) ==
    IF long_id(entry) \in DOMAIN cands
    THEN LET candidate == cands[long_id(entry)]
         IN [result |-> candidate.orig_photo_id,
             candidates |-> [e \in (DOMAIN cands) \ {long_id(entry)} |-> cands[e]],
             duplicates |-> [p \in (DOMAIN dups) \cup {entry.photo_id} |->
                                IF p = entry.photo_id THEN candidate ELSE dups[p]]]
    ELSE [result |-> None, candidates |-> cands, duplicates |-> dups]

\* The result of identify_dupe_id with the two dicts it updates.
identify_dupe_id(entry, cands, dups) ==
    IF long_id(entry) \in DOMAIN cands
    THEN LET candidate == [cands[long_id(entry)] EXCEPT !.dupe_photo_id = entry.photo_id]
         IN [result |-> candidate.orig_photo_id,
             candidates |-> [e \in (DOMAIN cands) \ {long_id(entry)} |-> cands[e]],
             duplicates |-> [p \in (DOMAIN dups) \cup {entry.photo_id} |->
                                IF p = entry.photo_id THEN candidate ELSE dups[p]]]
    ELSE [result |-> None, candidates |-> cands, duplicates |-> dups]

\* The conflict branches of the field loop of merge_dupe: the values
\* orig_entry[field] can have after one of them.  Only list(set(...)) has
\* more than one outcome.
\* merge_conflict with the secondary photo id taken on a conflict.
merge_conflict_photo_id_taken(field, orig_value, dupe_value) ==
    IF field = "photo_id" THEN {dupe_value}
    ELSE IF field \in {"db_id", "museum_obj"} THEN {orig_value}
    ELSE IF field = "date" THEN {orig_value}
    ELSE IF field = "license"
         THEN IF {dupe_value, orig_value} = {PD, cc0}
              THEN {PD}
              ELSE {orig_value \o (<<"/">> \o dupe_value)}
    ELSE IF field \in ListFields THEN Orderings(Range(orig_value \o dupe_value))
    ELSE IF Strip(orig_value) # Strip(dupe_value)
         THEN {LStrip(RStrip(orig_value, {" ", "."}) \o <<".", " ">> \o dupe_value,
                      {" ", "."})}
         ELSE {orig_value}

merge_conflict(field, orig_value, dupe_value) ==
    IF field \in {"photo_id", "db_id", "museum_obj"} THEN {orig_value}
    ELSE IF field = "date" THEN {orig_value}
    ELSE IF field = "license"
         THEN IF {dupe_value, orig_value} = {PD, cc0}
              THEN {PD}
              ELSE {orig_value \o (<<"/">> \o dupe_value)}
    ELSE IF field \in ListFields THEN Orderings(Range(orig_value \o dupe_value))
    ELSE IF Strip(orig_value) # Strip(dupe_value)
         THEN {LStrip(RStrip(orig_value, {" ", "."}) \o <<".", " ">> \o dupe_value,
                      {" ", "."})}
         ELSE {orig_value}

\* merge_field without the test of the dupe value for emptiness.
merge_field_no_skip(field, orig_value, dupe_value) ==
    IF orig_value = dupe_value THEN {orig_value}
    ELSE IF orig_value = << >> THEN {dupe_value}
    ELSE merge_conflict(field, orig_value, dupe_value)

\* merge_field with an empty primary value left empty.
merge_field_no_adopt(field, orig_value, dupe_value) ==
    IF dupe_value = << >> \/ orig_value = dupe_value THEN {orig_value}
    ELSE IF orig_value = << >> THEN {orig_value}
    ELSE merge_conflict(field, orig_value, dupe_value)

\* merge_field with the secondary value taken on a conflict in an identity
\* field.
merge_field_identity_adopts(field, orig_value, dupe_value) ==
    IF dupe_value = << >> \/ orig_value = dupe_value THEN {orig_value}
    ELSE IF orig_value = << >> THEN {dupe_value}
    ELSE IF field \in {"photo_id", "db_id", "museum_obj"} THEN {dupe_value}
    ELSE merge_conflict(field, orig_value, dupe_value)

\* merge_field with no special case for the licenses PD and cc0.
merge_field_license_joined(field, orig_value, dupe_value) ==
    IF dupe_value = << >> \/ orig_value = dupe_value THEN {orig_value}
    ELSE IF orig_value = << >> THEN {dupe_value}
    ELSE IF field = "license" THEN {orig_value \o (<<"/">> \o dupe_value)}
    ELSE merge_conflict(field, orig_value, dupe_value)

\* merge_field with the secondary license put first on a conflict.
merge_field_license_reversed(field, orig_value, dupe_value) ==
    IF dupe_value = << >> \/ orig_value = dupe_value THEN {orig_value}
    ELSE IF orig_value = << >> THEN {dupe_value}
    ELSE IF field = "license" /\ {dupe_value, orig_value} # {PD, cc0}
         THEN {dupe_value \o (<<"/">> \o orig_value)}
    ELSE merge_conflict(field, orig_value, dupe_value)

\* merge_field with the two lists concatenated on a conflict.
merge_field_list_concatenated(field, orig_value, dupe_value) ==
    IF dupe_value = << >> \/ orig_value = dupe_value THEN {orig_value}
    ELSE IF orig_value = << >> THEN {dupe_value}
    ELSE IF field \in ListFields \ {"date"} THEN {orig_value \o dupe_value}
    ELSE merge_conflict(field, orig_value, dupe_value)

\* merge_field with free texts joined as they are on a conflict.
merge_field_text_unstripped(field, orig_value, dupe_value) ==
    IF dupe_value = << >> \/ orig_value = dupe_value THEN {orig_value}
    ELSE IF orig_value = << >> THEN {dupe_value}
    ELSE IF field = "description_sv" /\ Strip(orig_value) # Strip(dupe_value)
         THEN {orig_value \o <<".", " ">> \o dupe_value}
    ELSE merge_conflict(field, orig_value, dupe_value)

\* One pass of the field loop of merge_dupe.
merge_field(field, orig_value, dupe_value) ==
    IF dupe_value = << >> \/ orig_value = dupe_value THEN {orig_value}
    ELSE IF orig_value = << >> THEN {dupe_value}
    ELSE merge_conflict(field, orig_value, dupe_value)

\* merge_warns with the date branch silent.
merge_warns_never(orig_entry, dupe_entry) == FALSE

\* pywikibot.warning is called in the date branch only.
merge_warns(orig_entry, dupe_entry) ==
    /\ dupe_entry.date # << >>
    /\ orig_entry.date # dupe_entry.date
    /\ orig_entry.date # << >>

\* dupe_entry.get('ext_ids').remove(orig_long_id), ValueError passed
strip_orig_long_id(orig_entry, dupe_entry) ==
    [dupe_entry EXCEPT !.ext_ids = RemoveFirst(@, long_id(orig_entry))]

\* The closing block of merge_dupe: the bare dupe_long_id is replaced by
\* the one labelled with the dupe photo id, ValueError passed.
label_dupe_long_id(ext_ids, dupe_entry, opts) ==
    IF InSeq(long_id(dupe_entry), ext_ids)
    THEN Append(RemoveFirst(ext_ids, long_id(dupe_entry)),
                long_id(dupe_entry) \o opts.label_delimiter \o dupe_entry.photo_id)
    ELSE ext_ids

\* The values orig_entry can have when merge_dupe returns.
merge_dupe(orig_entry, dupe_entry, opts) ==
    LET dupe == strip_orig_long_id(orig_entry, dupe_entry)
        one(field) == CHOOSE val \in merge_field(field, orig_entry[field], dupe[field]) : TRUE
    IN {[photo_id |-> one("photo_id"),
         db_id |-> one("db_id"),
         museum_obj |-> one("museum_obj"),
         ext_ids |-> label_dupe_long_id(e, dupe_entry, opts),
         date |-> one("date"),
         license |-> one("license"),
         motivord |-> m,
         description_sv |-> one("description_sv")] :
            e \in merge_field("ext_ids", orig_entry.ext_ids, dupe.ext_ids),
            m \in merge_field("motivord", orig_entry.motivord, dupe.motivord)}

\* log_same_photo_id with the test left out.
log_same_photo_id_always(log, key, data) == Append(log, key)

\* The test and the pywikibot.error call of the else branch of merge_data.
log_same_photo_id(log, key, data) ==
    IF key \in Keys(data) THEN Append(log, key) ELSE log

\* process_dupe_archive_entry returning the card as it came.
process_dupe_archive_entry_keep(data, dups) == data

\* process_dupe_archive_entry reading orig_long_id for orig_photo_id.
process_dupe_archive_entry_long_id(data, dups) ==
    [data EXCEPT !.photo_ids =
        [n \in DOMAIN data.photo_ids |->
            IF data.photo_ids[n] \in DOMAIN dups
            THEN dups[data.photo_ids[n]].orig_long_id
            ELSE data.photo_ids[n]]]

\* process_dupe_archive_entry appending every photo id once more after the
\* id it is replaced by.
process_dupe_archive_entry_twice(data, dups) ==
    [data EXCEPT !.photo_ids =
        [n \in 1..(2 * Len(data.photo_ids)) |->
            IF n % 2 = 0 THEN data.photo_ids[n \div 2]
            ELSE IF data.photo_ids[(n + 1) \div 2] \in DOMAIN dups
                 THEN dups[data.photo_ids[(n + 1) \div 2]].orig_photo_id
                 ELSE data.photo_ids[(n + 1) \div 2]]]

process_dupe_archive_entry(data, dups) ==
    [data EXCEPT !.photo_ids =
        [n \in DOMAIN data.photo_ids |->
            IF data.photo_ids[n] \in DOMAIN dups
            THEN dups[data.photo_ids[n]].orig_photo_id
            ELSE data.photo_ids[n]]]

----------------------------------------------------------------------------
(* The loaded files: bounded inputs                                        *)

MaxOrig == 2        \* records in the primary main file
MaxDupe == 2        \* records in the secondary main file
MaxExt == 2         \* entries in one ext_ids cell
MaxCards == 1       \* cards in one archive file
MaxCardKey == 2     \* distinct card keys
MaxCardPhotos == 2  \* entries in one photo_ids cell

Digits == <<"1", "2", "3", "4", "5", "6", "7", "8", "9">>

OrigMuseumObj == <<"E", "/", "f">>

DupeMuseumObj == <<"M", "/", "f">>

\* Photo ids: the n-th primary record is "n", the n-th secondary record is
\* "9n" unless it carries the photo id of the first primary record.
OrigPhotoId(n) == <<Digits[n]>>

DupePhotoId(n) == <<"9", Digits[n]>>

DbId(n) == <<Digits[n]>>

OrigLongId(n) == OrigMuseumObj \o <<"/">> \o DbId(n)

DupeLongId(n) == DupeMuseumObj \o <<"/">> \o DbId(n)

SeqsUpTo(S, n) == UNION {[1..m -> S] : m \in 0..n}

Entry(photo_id, db_id, museum_obj, ext_ids, date, license, motivord, description_sv) ==
    [photo_id |-> photo_id, db_id |-> db_id, museum_obj |-> museum_obj,
     ext_ids |-> ext_ids, date |-> date, license |-> license,
     motivord |-> motivord, description_sv |-> description_sv]

Card(label, db_id, museum_obj, photo_ids) ==
    [label |-> label, db_id |-> db_id, museum_obj |-> museum_obj, photo_ids |-> photo_ids]

\* The other columns of the n-th record of each file.  In the primary file
\* every column is filled; the first secondary record differs from it in
\* date, license and description, the later ones leave the columns empty.
OrigEntry(n, ext_ids) ==
    Entry(OrigPhotoId(n), DbId(n), OrigMuseumObj, ext_ids,
          << <<"1", "9">> >>, PD, << <<"a">> >>, <<"x">>)

DupeEntry(n, photo_id, db, ext_ids) ==
    IF n = 1
    THEN Entry(photo_id, DbId(db), DupeMuseumObj, ext_ids,
               << <<"2", "0">> >>, cc0, << <<"a">> >>, <<"y">>)
    ELSE Entry(photo_id, DbId(db), DupeMuseumObj, ext_ids, << >>, << >>, << >>, << >>)

\* What a primary record lists: long ids of secondary records.
OrigExtIds == {DupeLongId(n) : n \in 1..MaxDupe}

\* What a secondary record lists: the first primary record, the first
\* secondary record.
DupeExtIds == {OrigLongId(1), DupeLongId(1)}

OrigData(lens, maxExt) ==
    UNION {{[n \in 1..len |-> Item(OrigPhotoId(n), OrigEntry(n, ext[n]))] :
                ext \in [1..len -> SeqsUpTo(OrigExtIds, maxExt)]} : len \in lens}

\* collide = n: the n-th secondary record has the photo id of the first
\* primary record; collide = 0: none has.
DupeData(lens, maxExt) ==
    UNION {{[n \in 1..len |->
                LET photo_id == IF n = collide THEN OrigPhotoId(1) ELSE DupePhotoId(n)
                IN Item(photo_id, DupeEntry(n, photo_id, db[n], ext[n]))] :
                db \in [1..len -> 1..MaxDupe],
                ext \in [1..len -> SeqsUpTo(DupeExtIds, maxExt)],
                collide \in 0..len} : len \in lens}

OrigPhotoIds == {OrigPhotoId(n) : n \in 1..MaxOrig}

DupePhotoIds == {DupePhotoId(n) : n \in 1..MaxDupe} \cup {OrigPhotoId(1)}

\* Archive files; a card is stored under its db_id.
ArchiveData(museum_obj, keys, photo_ids, maxRefs) ==
    UNION {{[n \in 1..len |->
                Item(DbId(key[n]), Card(<<"c", Digits[n]>>, DbId(key[n]), museum_obj, refs[n]))] :
                key \in {k \in [1..len -> keys] : \A a, b \in 1..len : k[a] = k[b] => a = b},
                refs \in [1..len -> SeqsUpTo(photo_ids, maxRefs)]} : len \in 0..MaxCards}

\* The archive files that go with main files m and d when the main files
\* are what varies: one primary card, and two secondary cards of which the
\* first takes the place of the primary card and lists every secondary
\* photo id.
OrigCards == <<Item(DbId(1), Card(<<"c", "1">>, DbId(1), OrigMuseumObj, <<OrigPhotoId(1)>>))>>

DupeCards(d) ==
    <<Item(DbId(1), Card(<<"c", "1">>, DbId(1), DupeMuseumObj, [n \in DOMAIN d |-> d[n].k])),
      Item(DbId(2), Card(<<"c", "2">>, DbId(2), DupeMuseumObj, << >>))>>

Load(m, a, d, c) ==
    [main_data |-> m, archive_data |-> a, dupe_data |-> d, dupe_archive_data |-> c]

\* The files of a run: (1) every primary main file with secondary records
\* listing at most MaxExt - 1 ids, (2) every secondary main file with
\* primary records listing at most MaxExt - 1 ids, (3) every pair of
\* archive files with one primary record and secondary records listing
\* nothing.
Loads(files) ==
    \/ \E m \in OrigData(0..MaxOrig, MaxExt), d \in DupeData(0..MaxDupe, MaxExt - 1) :
          files = Load(m, OrigCards, d, DupeCards(d))
    \/ \E m \in OrigData(0..MaxOrig, MaxExt - 1), d \in DupeData(0..MaxDupe, MaxExt) :
          files = Load(m, OrigCards, d, DupeCards(d))
    \/ \E m \in OrigData({1}, MaxExt), d \in DupeData(0..MaxDupe, 0),
          a \in ArchiveData(OrigMuseumObj, {1}, OrigPhotoIds, MaxCardPhotos - 1),
          c \in ArchiveData(DupeMuseumObj, 1..MaxCardKey, DupePhotoIds, MaxCardPhotos) :
          files = Load(m, a, d, c)

----------------------------------------------------------------------------
(* merge_data                                                              *)

Init ==
    /\ Loads(loaded)
    /\ main_data = loaded.main_data
    /\ archive_data = loaded.archive_data
    /\ dupe_data = loaded.dupe_data
    /\ dupe_archive_data = loaded.dupe_archive_data
    /\ candidates = << >>
    /\ duplicates = << >>
    /\ pc = "populate_candidates"
    /\ i = 0
    /\ j = 0
    /\ error_log = << >>
    /\ warning_log = << >>
    /\ csv_files = << >>
    /\ args = << >>
    /\ settings = << >>
    /\ output = << >>
    /\ steps = << >>

\* candidates = populate_candidates(main_data); duplicates = {}
PopulateCandidates ==
    /\ pc = "populate_candidates"
    /\ candidates' = populate_candidates(main_data)
    /\ duplicates' = << >>
    /\ pc' = "dupe_data"
    /\ UNCHANGED <<main_data, archive_data, dupe_data, dupe_archive_data, i, j,
                   error_log, warning_log, loaded, steps, csv_files, output, args, settings>>

\* merge_dupe(main_data.get(orig_photo_id), dupe_entry, options): the entry
\* stored under orig_photo_id is changed in place, a date conflict is logged.
CallMergeDupe(orig_photo_id, dupe_entry) ==
    /\ \E merged \in merge_dupe(Get(main_data, orig_photo_id), dupe_entry, options) :
          main_data' = Put(main_data, orig_photo_id, merged)
    /\ warning_log' =
          IF merge_warns(Get(main_data, orig_photo_id),
                         strip_orig_long_id(Get(main_data, orig_photo_id), dupe_entry))
          THEN Append(warning_log, dupe_entry.photo_id)
          ELSE warning_log

\* The body of the loop over dupe_data.items() for one item, with what
\* the step history records of it.
MergeOrInsert(key, dupe_entry) ==
    LET found == identify_dupe_id(dupe_entry, candidates, duplicates)
        orig_photo_id == found.result
    IN /\ candidates' = found.candidates
       /\ duplicates' = found.duplicates
       /\ \/ /\ orig_photo_id # << >>
             /\ CallMergeDupe(orig_photo_id, dupe_entry)
             /\ error_log' = error_log
             /\ steps' = Append(steps, [op |-> "merge_dupe", key |-> key,
                                        dupe |-> dupe_entry,
                                        hit |-> long_id(dupe_entry) \in DOMAIN candidates,
                                        had_key |-> key \in Keys(main_data),
                                        target |-> orig_photo_id,
                                        orig |-> Get(main_data, orig_photo_id)])
          \/ /\ orig_photo_id = << >>
             /\ error_log' = log_same_photo_id(error_log, key, main_data)
             /\ main_data' = Put(main_data, key, dupe_entry)
             /\ warning_log' = warning_log
             /\ steps' = Append(steps, [op |-> "insert", key |-> key,
                                        dupe |-> dupe_entry,
                                        hit |-> long_id(dupe_entry) \in DOMAIN candidates,
                                        had_key |-> key \in Keys(main_data)])

\* One pass of the loop over dupe_data.items().
ProcessDupeData ==
    /\ pc = "dupe_data"
    /\ i < Len(dupe_data)
    /\ MergeOrInsert(dupe_data[i + 1].k, dupe_data[i + 1].v)
    /\ i' = i + 1
    /\ UNCHANGED <<archive_data, dupe_data, dupe_archive_data, pc, j, loaded, csv_files, output, args, settings>>

\* EndDupeData leaving the loop over dupe_data before it is exhausted.
EndDupeDataEarly ==
    /\ pc = "dupe_data"
    /\ pc' = "dupe_archive_data"
    /\ UNCHANGED <<main_data, archive_data, dupe_data, dupe_archive_data, candidates,
                   duplicates, i, j, error_log, warning_log, loaded, steps, csv_files,
                   output, args, settings>>

\* dupe_data is exhausted: on to the loop over dupe_archive_data.items().
EndDupeData ==
    /\ pc = "dupe_data"
    /\ i = Len(dupe_data)
    /\ pc' = "dupe_archive_data"
    /\ UNCHANGED <<main_data, archive_data, dupe_data, dupe_archive_data, candidates,
                   duplicates, i, j, error_log, warning_log, loaded, steps, csv_files, output, args, settings>>

\* ProcessDupeArchive storing the card with setdefault: a primary card
\* with the same key stays.
ProcessDupeArchiveSetDefault ==
    /\ pc = "dupe_archive_data"
    /\ j < Len(dupe_archive_data)
    /\ LET key == dupe_archive_data[j + 1].k
           card == process_dupe_archive_entry(dupe_archive_data[j + 1].v, duplicates)
       IN /\ archive_data' = IF key \in Keys(archive_data)
                             THEN archive_data
                             ELSE Put(archive_data, key, card)
          /\ dupe_archive_data' = [dupe_archive_data EXCEPT ![j + 1].v = card]
          /\ steps' = Append(steps, [op |-> "process_dupe_archive_entry", key |-> key,
                                     data |-> dupe_archive_data[j + 1].v,
                                     dups |-> duplicates])
    /\ j' = j + 1
    /\ UNCHANGED <<main_data, dupe_data, candidates, duplicates, pc, i,
                   error_log, warning_log, loaded, csv_files, output, args, settings>>

\* One pass of the loop over dupe_archive_data.items(); the card is
\* rewritten in place and stored.
ProcessDupeArchive ==
    /\ pc = "dupe_archive_data"
    /\ j < Len(dupe_archive_data)
    /\ LET key == dupe_archive_data[j + 1].k
           card == process_dupe_archive_entry(dupe_archive_data[j + 1].v, duplicates)
       IN /\ archive_data' = Put(archive_data, key, card)
          /\ dupe_archive_data' = [dupe_archive_data EXCEPT ![j + 1].v = card]
          /\ steps' = Append(steps, [op |-> "process_dupe_archive_entry", key |-> key,
                                     data |-> dupe_archive_data[j + 1].v,
                                     dups |-> duplicates])
    /\ j' = j + 1
    /\ UNCHANGED <<main_data, dupe_data, candidates, duplicates, pc, i,
                   error_log, warning_log, loaded, csv_files, output, args, settings>>

\* merge_data returns.
EndMergeData ==
    /\ pc = "dupe_archive_data"
    /\ j = Len(dupe_archive_data)
    /\ pc' = "done"
    /\ UNCHANGED <<main_data, archive_data, dupe_data, dupe_archive_data, candidates,
                   duplicates, i, j, error_log, warning_log, loaded, steps, csv_files, output, args, settings>>

Next ==
    \/ PopulateCandidates
    \/ ProcessDupeData
    \/ EndDupeData
    \/ ProcessDupeArchive
    \/ EndMergeData

Spec == Init /\ [][Next]_vars

----------------------------------------------------------------------------
(* merge_dupe on its own: one call on a pair of records                    *)

MaxText == 2        \* characters in a free-text value
MaxList == 2        \* entries in a date or motivord cell

TextChars == {"a", " ", "."}

CCBY == <<"B", "Y">>

\* The values of a field that the pairs are drawn from.
FieldValues(field) ==
    IF field = "photo_id" THEN {<< >>, OrigPhotoId(1), DupePhotoId(1)}
    ELSE IF field = "db_id" THEN {<< >>, DbId(1), DbId(2)}
    ELSE IF field = "museum_obj" THEN {<< >>, OrigMuseumObj, DupeMuseumObj}
    ELSE IF field = "ext_ids"
         THEN SeqsUpTo({OrigLongId(1), DupeLongId(1), DupeLongId(2)}, MaxExt)
    ELSE IF field = "date" THEN SeqsUpTo({<<"1", "9">>, <<"2", "0">>}, MaxList)
    ELSE IF field = "license" THEN {<< >>, PD, cc0, CCBY}
    ELSE IF field = "motivord" THEN SeqsUpTo({<<"a">>, <<"b">>}, MaxList)
    ELSE SeqsUpTo(TextChars, MaxText)

\* A matched pair as the files usually have it: the primary record lists
\* the long id of the secondary record, the other columns agree.
PairOrig == OrigEntry(1, <<DupeLongId(1)>>)

PairDupe ==
    Entry(DupePhotoId(1), DbId(1), DupeMuseumObj, << >>,
          PairOrig.date, PairOrig.license, PairOrig.motivord, PairOrig.description_sv)

\* The pair with one field given any two values.
InitMergeDupe ==
    /\ \E field \in Fields :
          \E orig_value \in FieldValues(field), dupe_value \in FieldValues(field) :
             /\ main_data = <<Item(OrigPhotoId(1), [PairOrig EXCEPT ![field] = orig_value])>>
             /\ dupe_data = <<Item(DupePhotoId(1), [PairDupe EXCEPT ![field] = dupe_value])>>
    /\ archive_data = << >>
    /\ dupe_archive_data = << >>
    /\ loaded = Load(main_data, archive_data, dupe_data, dupe_archive_data)
    /\ candidates = << >>
    /\ duplicates = << >>
    /\ pc = "merge_dupe"
    /\ i = 0
    /\ j = 0
    /\ error_log = << >>
    /\ warning_log = << >>
    /\ csv_files = << >>
    /\ args = << >>
    /\ settings = << >>
    /\ output = << >>
    /\ steps = << >>

MergeDupe ==
    /\ pc = "merge_dupe"
    /\ CallMergeDupe(main_data[1].k, dupe_data[1].v)
    /\ steps' = Append(steps, [op |-> "merge_dupe", key |-> dupe_data[1].k,
                               dupe |-> dupe_data[1].v,
                               hit |-> TRUE,
                               had_key |-> dupe_data[1].k \in Keys(main_data),
                               target |-> main_data[1].k,
                               orig |-> main_data[1].v])
    /\ pc' = "merged"
    /\ UNCHANGED <<archive_data, dupe_data, dupe_archive_data, candidates, duplicates,
                   i, j, error_log, loaded, csv_files, output, args, settings>>

NextMergeDupe == MergeDupe

SpecMergeDupe == InitMergeDupe /\ [][NextMergeDupe]_vars

----------------------------------------------------------------------------
(* main: the four csv files are loaded, merged, and the result is written. *)
(* A csv file is its header line and its rows; a header line is the        *)
(* sequence of its column names with the delimiter between them, a column  *)
(* name being one symbol; a row is a dict from column name to cell.        *)

MaxFileRecords == 1     \* records in each main file of a run of main

DELIMITER == "¤"

\* The columns an archive file has and the key column.
archive_metadata ==
    [fields |-> <<Item("Id", "label"),
                  Item("Postnr", "db_id"),
                  Item("Museum/objekt", "museum_obj"),
                  Item("Fotonummer", "photo_ids")>>,
     key_column |-> "Postnr"]

\* The columns a main file has, those of Fields out of the 24, and the key
\* column.
main_metadata ==
    [fields |-> <<Item("Fotonummer", "photo_id"),
                  Item("Beskrivning", "description_sv"),
                  Item("Motivord", "motivord"),
                  Item("Fotodatum", "date"),
                  Item("Postnr.", "db_id"),
                  Item("Objekt, externt / samma som", "ext_ids"),
                  Item("Media/Licens", "license"),
                  Item("Museum/objekt", "museum_obj")>>,
     key_column |-> "Fotonummer"]

\* list(d.keys())
KeyList(d) == [n \in DOMAIN d |-> d[n].k]

\* delimiter.join(strs)
RECURSIVE Join(_, _)
Join(delimiter, strs) ==
    IF strs = << >> THEN << >>
    ELSE IF Len(strs) = 1 THEN strs
    ELSE <<Head(strs), delimiter>> \o Join(delimiter, Tail(strs))

\* {v: k for k, v in old_dict.items()}
RECURSIVE invert_dict_from(_, _)
invert_dict_from(inverted, items) ==
    IF items = << >> THEN inverted
    ELSE invert_dict_from(Put(inverted, Head(items).v, Head(items).k), Tail(items))

invert_dict(old_dict) == invert_dict_from(<< >>, old_dict)

\* relabel_inner_dict assigning the new key without popping the old one.
RECURSIVE relabel_inner_dict_keep_old(_, _)
relabel_inner_dict_keep_old(inner, key_map) ==
    IF key_map = << >> THEN inner
    ELSE relabel_inner_dict_keep_old(
            (Head(key_map).v :> inner[Head(key_map).k]) @@ inner, Tail(key_map))

\* for old_key, new_key in key_map.items(): inner[new_key] = inner.pop(old_key)
RECURSIVE relabel_inner_dict(_, _)
relabel_inner_dict(inner, key_map) ==
    IF key_map = << >> THEN inner
    ELSE LET old_key == Head(key_map).k
             new_key == Head(key_map).v
             popped == [key \in (DOMAIN inner) \ {old_key} |-> inner[key]]
         IN relabel_inner_dict((new_key :> inner[old_key]) @@ popped, Tail(key_map))

relabel_inner_dicts(obj, key_map) ==
    [n \in DOMAIN obj |-> Item(obj[n].k, relabel_inner_dict(obj[n].v, key_map))]

\* csv_methods.csv_file_to_dict: a header line other than expected_header
\* raises; else the rows are returned under their cell of the key column.
csv_file_to_dict(csv_file, key_column, expected_header) ==
    IF csv_file.header # expected_header
    THEN [raised |-> TRUE, raw_dict |-> None]
    ELSE [raised |-> FALSE,
          raw_dict |-> [n \in DOMAIN csv_file.rows |->
                           Item(csv_file.rows[n][key_column], csv_file.rows[n])]]

expected_header(metadata) == Join(DELIMITER, KeyList(metadata.fields))

base_load_data(csv_file, metadata) ==
    LET result == csv_file_to_dict(csv_file, metadata.key_column, expected_header(metadata))
    IN IF result.raised
       THEN [raised |-> TRUE, data |-> None]
       ELSE [raised |-> FALSE,
             data |-> relabel_inner_dicts(result.raw_dict, metadata.fields)]

load_data(csv_file) == base_load_data(csv_file, main_metadata)

\* load_archive_data(csv_file, raw=True)
load_archive_data_raw(csv_file) == base_load_data(csv_file, archive_metadata)

\* What csv_methods.dict_to_csv_file is called with.
base_output_data(data, metadata, filename) ==
    [filename |-> filename,
     header |-> expected_header(metadata),
     rows |-> Values(relabel_inner_dicts(data, invert_dict(metadata.fields)))]

\* The entries of the dict load_files returns, in the order they are
\* evaluated in, each with the option that names its file.
LoadOrder ==
    <<[data |-> "main_data", option |-> "orig_data_file", archive |-> FALSE],
      [data |-> "archive_data", option |-> "orig_archive_file", archive |-> TRUE],
      [data |-> "dupe_data", option |-> "dupe_data_file", archive |-> FALSE],
      [data |-> "dupe_archive_data", option |-> "dupe_archive_file", archive |-> TRUE]>>

\* Command-line arguments.  An argument is a sequence of symbols: the
\* characters of a path or a value, "-", ":", and the name of an option as
\* one symbol.  No argument is a global option of pywikibot, so that
\* pywikibot.handle_args returns the arguments as they are, and a value is
\* what convert_from_commandline returns for it.

MaxArgs == 5            \* arguments on the command line

LIST_DELIMITER == "|"

DEFAULT_OPTIONS ==
    <<Item("delimiter", <<DELIMITER>>),
      Item("list_delimiter", <<LIST_DELIMITER>>),
      Item("label_delimiter", LABEL_DELIMITER),
      Item("orig_data_file", None),
      Item("orig_archive_file", None),
      Item("dupe_data_file", None),
      Item("dupe_archive_file", None),
      Item("base_name", None)>>

arg_map == <<"orig_data_file", "orig_archive_file", "dupe_data_file", "dupe_archive_file">>

\* d.get(key)
GetOrNone(d, key) == IF key \in Keys(d) THEN Get(d, key) ELSE None

\* x or y
Or(x, y) == IF x = << >> THEN y ELSE x

\* str.partition(sep)
Partition(str, sep) ==
    IF InSeq(sep, str)
    THEN LET at == CHOOSE n \in DOMAIN str :
                      str[n] = sep /\ \A m \in 1..(n - 1) : str[m] # sep
         IN [option |-> SubSeq(str, 1, at - 1), sep |-> <<sep>>,
             value |-> SubSeq(str, at + 1, Len(str))]
    ELSE [option |-> str, sep |-> << >>, value |-> << >>]

\* The loop of handle_args from one state of it on.  stopped is "exit"
\* after exit(), "IndexError" after a fifth unlabeled argument.
RECURSIVE handle_args_from(_, _)
handle_args_from(state, rest) ==
    IF rest = << >> \/ state.stopped # "" THEN state
    ELSE LET arg == Partition(Head(rest), ":")
         IN handle_args_from(
               IF arg.sep = << >>
               THEN IF state.arg_counter >= Len(arg_map)
                    THEN [state EXCEPT !.stopped = "IndexError"]
                    ELSE [state EXCEPT
                             !.options = Put(@, arg_map[state.arg_counter + 1], arg.option),
                             !.arg_counter = @ + 1]
               ELSE IF /\ arg.option # << >>
                       /\ Head(arg.option) = "-"
                       /\ Len(arg.option) = 2
                       /\ arg.option[2] \in Keys(DEFAULT_OPTIONS)
                    THEN [state EXCEPT !.options = Put(@, arg.option[2], arg.value)]
                    ELSE [state EXCEPT !.stopped = "exit", !.usage = TRUE],
               Tail(rest))

handle_args(arguments) ==
    LET state == handle_args_from([options |-> << >>, arg_counter |-> 0, stopped |-> "",
                                   usage |-> FALSE, errors |-> << >>], arguments)
    IN IF state.stopped = "" /\ state.arg_counter \notin {0, 4}
       THEN [state EXCEPT !.errors = Append(@, "Either all filenames are passed as unlabeled arguments or none.")]
       ELSE state

\* for key, val in default_options.items(): options[key] = options.get(key) or val
RECURSIVE combine_settings(_, _)
combine_settings(opts, defaults) ==
    IF defaults = << >> THEN opts
    ELSE combine_settings(Put(opts, Head(defaults).k,
                              Or(GetOrNone(opts, Head(defaults).k), Head(defaults).v)),
                          Tail(defaults))

\* load_settings returning the options whatever they are.
load_settings_unchecked(arguments) ==
    LET state == handle_args(arguments)
    IN IF state.stopped # "" THEN state
       ELSE [state EXCEPT !.options = combine_settings(state.options, DEFAULT_OPTIONS)]

load_settings(arguments) ==
    LET state == handle_args(arguments)
        combined == combine_settings(state.options, DEFAULT_OPTIONS)
    IN IF state.stopped # "" THEN state
       ELSE IF \E n \in DOMAIN combined : combined[n].v = None
            THEN [state EXCEPT !.options = combined,
                               !.errors = Append(@, "All required arguments must be provided."),
                               !.usage = TRUE,
                               !.stopped = "exit"]
            ELSE [state EXCEPT !.options = combined]

base_name == <<"o", "u", "t">>

\* A csv file as it is on disk.
CsvFile(header, rows) == [header |-> header, rows |-> rows]

\* The rows of the file that data is loaded from.
CsvRows(data, metadata) ==
    Values(relabel_inner_dicts(data, invert_dict(metadata.fields)))

SwapFirstTwo(strs) == <<strs[2], strs[1]>> \o SubSeq(strs, 3, Len(strs))

\* The header lines a file comes with: the expected one, the one of the
\* other kind of file, the expected one with its first two columns swapped.
Headers(metadata, other_metadata) ==
    {expected_header(metadata),
     expected_header(other_metadata),
     Join(DELIMITER, SwapFirstTwo(KeyList(metadata.fields)))}

\* The arguments a command line is made of: a path, a path with a colon in
\* it, -base_name with and without a value, two of the file options, an
\* option that does not exist.
Arguments ==
    {<<"f">>,
     <<"C", ":", "f">>,
     <<"-", "base_name", ":">> \o base_name,
     <<"-", "base_name", ":">>,
     <<"-", "dupe_data_file", ":", "f">>,
     <<"-", "dupe_archive_file", ":", "f">>,
     <<"-", "n", ":", "f">>}

\* The command line that names the four files and the base name.
FullArguments == <<<<"f">>, <<"f">>, <<"f">>, <<"f">>, <<"-", "base_name", ":">> \o base_name>>

\* The runs of main: (1) the full command line with every pair of main
\* files under every header, (2) every command line with one pair of main
\* files under the expected headers.
InitMain ==
    /\ \/ /\ args = FullArguments
          /\ \E m \in OrigData(0..MaxFileRecords, 1), d \in DupeData(0..MaxFileRecords, 0) :
                \E h1, h3 \in Headers(main_metadata, archive_metadata),
                   h2, h4 \in Headers(archive_metadata, main_metadata) :
                   csv_files =
                      [orig_data_file |-> CsvFile(h1, CsvRows(m, main_metadata)),
                       orig_archive_file |-> CsvFile(h2, CsvRows(OrigCards, archive_metadata)),
                       dupe_data_file |-> CsvFile(h3, CsvRows(d, main_metadata)),
                       dupe_archive_file |-> CsvFile(h4, CsvRows(DupeCards(d), archive_metadata))]
       \/ /\ args \in SeqsUpTo(Arguments, MaxArgs)
          /\ csv_files =
                [orig_data_file |->
                    CsvFile(expected_header(main_metadata), CsvRows(<< >>, main_metadata)),
                 orig_archive_file |->
                    CsvFile(expected_header(archive_metadata), CsvRows(OrigCards, archive_metadata)),
                 dupe_data_file |->
                    CsvFile(expected_header(main_metadata), CsvRows(<< >>, main_metadata)),
                 dupe_archive_file |->
                    CsvFile(expected_header(archive_metadata),
                            CsvRows(DupeCards(<< >>), archive_metadata))]
    /\ settings = << >>
    /\ main_data = << >>
    /\ archive_data = << >>
    /\ dupe_data = << >>
    /\ dupe_archive_data = << >>
    /\ loaded = << >>
    /\ candidates = << >>
    /\ duplicates = << >>
    /\ pc = "load_settings"
    /\ i = 0
    /\ j = 0
    /\ error_log = << >>
    /\ warning_log = << >>
    /\ steps = << >>
    /\ output = << >>

\* options = load_settings(args): exit() and an exception leave main.
LoadSettings ==
    /\ pc = "load_settings"
    /\ LET result == load_settings(args)
       IN /\ error_log' = error_log \o result.errors
          /\ IF result.stopped # ""
             THEN pc' = "exited" /\ settings' = settings
             ELSE pc' = "load_files" /\ settings' = result.options
    /\ UNCHANGED <<main_data, archive_data, dupe_data, dupe_archive_data, candidates,
                   duplicates, i, j, warning_log, loaded, steps, csv_files, output, args>>

\* load_files with the exception of a load caught: the dataset is empty.
LoadFileCaught ==
    /\ pc = "load_files"
    /\ LET next == LoadOrder[Cardinality(DOMAIN loaded) + 1]
           csv_file == csv_files[next.option]
           result == IF next.archive
                     THEN load_archive_data_raw(csv_file)
                     ELSE load_data(csv_file)
           data_files == (next.data :> result.data) @@ loaded
       IN /\ loaded' = data_files
          /\ IF DOMAIN data_files = {LoadOrder[n].data : n \in DOMAIN LoadOrder}
             THEN /\ main_data' = data_files.main_data
                  /\ archive_data' = data_files.archive_data
                  /\ dupe_data' = data_files.dupe_data
                  /\ dupe_archive_data' = data_files.dupe_archive_data
                  /\ pc' = "populate_candidates"
             ELSE UNCHANGED <<main_data, archive_data, dupe_data, dupe_archive_data, pc>>
    /\ UNCHANGED <<candidates, duplicates, i, j, error_log, warning_log, steps,
                   csv_files, output, args, settings>>

\* One entry of the dict of load_files: the next file is loaded.  An
\* exception of the load leaves main, which catches none; after the last
\* entry load_files returns and main calls merge_data.
LoadFile ==
    /\ pc = "load_files"
    /\ LET next == LoadOrder[Cardinality(DOMAIN loaded) + 1]
           csv_file == csv_files[next.option]
           result == IF next.archive
                     THEN load_archive_data_raw(csv_file)
                     ELSE load_data(csv_file)
           data_files == (next.data :> result.data) @@ loaded
       IN IF result.raised
          THEN /\ pc' = "raised"
               /\ UNCHANGED <<main_data, archive_data, dupe_data, dupe_archive_data, loaded>>
          ELSE /\ loaded' = data_files
               /\ IF DOMAIN data_files = {LoadOrder[n].data : n \in DOMAIN LoadOrder}
                  THEN /\ main_data' = data_files.main_data
                       /\ archive_data' = data_files.archive_data
                       /\ dupe_data' = data_files.dupe_data
                       /\ dupe_archive_data' = data_files.dupe_archive_data
                       /\ pc' = "populate_candidates"
                  ELSE UNCHANGED <<main_data, archive_data, dupe_data,
                                   dupe_archive_data, pc>>
    /\ UNCHANGED <<candidates, duplicates, i, j, error_log, warning_log, steps,
                   csv_files, output, args, settings>>

\* output_files: the merged main and archive datasets are written, their
\* dicts relabelled in place.
OutputFiles ==
    /\ pc = "done"
    /\ output' = output \o
          <<base_output_data(main_data, main_metadata,
                             Get(settings, "base_name") \o <<"_", "m", "e", "r", "g", "e", "d",
                                            ".", "c", "s", "v">>),
            base_output_data(archive_data, archive_metadata,
                             Get(settings, "base_name") \o <<"_", "m", "e", "r", "g", "e", "d", "_",
                                            "a", "r", "k", "i", "v", ".", "c", "s", "v">>)>>
    /\ main_data' = relabel_inner_dicts(main_data, invert_dict(main_metadata.fields))
    /\ archive_data' = relabel_inner_dicts(archive_data, invert_dict(archive_metadata.fields))
    /\ pc' = "complete"
    /\ UNCHANGED <<dupe_data, dupe_archive_data, candidates, duplicates, i, j,
                   error_log, warning_log, loaded, steps, csv_files, args, settings>>

NextMain ==
    \/ LoadSettings
    \/ LoadFile
    \/ PopulateCandidates
    \/ ProcessDupeData
    \/ EndDupeData
    \/ ProcessDupeArchive
    \/ EndMergeData
    \/ OutputFiles

SpecMain == InitMain /\ [][NextMain]_vars

----------------------------------------------------------------------------
(* Output and reload: a loaded dataset is written by base_output_data and  *)
(* the file written is loaded by base_load_data, with the whole schemas.   *)

MaxSaved == 2           \* records in the dataset written and reloaded

\* main_metadata() with each of its 24 columns.
whole_main_metadata ==
    [fields |-> <<Item("Fotonummer", "photo_id"),
                  Item("Beskrivning", "description_sv"),
                  Item("Motivord", "motivord"),
                  Item("Sökord", "sokord"),
                  Item("Händelse", "event"),
                  Item("Etnisk grupp", "ethnic"),
                  Item("Personnamn, avbildad", "depicted_persons"),
                  Item("Land, Fotograferad", "land"),
                  Item("Region, fotograferad i", "region"),
                  Item("Ort, fotograferad i", "ort"),
                  Item("Geografiskt namn, annat", "other_geo"),
                  Item("Fotograf", "photographer"),
                  Item("Fotodatum", "date"),
                  Item("Personnamn / tillverkare", "creator"),
                  Item("Beskrivning, engelska", "description_en"),
                  Item("Referens / Publicerad i", "reference_published"),
                  Item("Postnr.", "db_id"),
                  Item("Objekt, externt / samma som", "ext_ids"),
                  Item("Etn, tidigare", "ethnic_old"),
                  Item("Land, ursprung/brukad", "depicted_land"),
                  Item("Region/Ort, ursprung", "depicted_places"),
                  Item("Referens / källa", "reference_source"),
                  Item("Media/Licens", "license"),
                  Item("Museum/objekt", "museum_obj")>>,
     key_column |-> "Fotonummer"]

\* The internal names of a schema, and the one of its key column.
Names(metadata) == {metadata.fields[m].v : m \in DOMAIN metadata.fields}

KeyField(metadata) == Get(metadata.fields, metadata.key_column)

CellValues == {<< >>, <<"a">>, <<"a", "b">>}

\* A loaded record: n in its key field and the name of the field in every
\* other one, but for the cell val of one field.
SavedRecord(metadata, n, field, val) ==
    [name \in Names(metadata) |->
        IF name = field THEN val
        ELSE IF name = KeyField(metadata) THEN <<Digits[n]>>
        ELSE <<name>>]

\* A loaded dataset: the first record has the cell val in one field, and
\* every record is stored under its cell of the key column.
SavedData(metadata, len, field, val) ==
    [n \in 1..len |->
        LET record == IF n = 1
                      THEN SavedRecord(metadata, n, field, val)
                      ELSE SavedRecord(metadata, n, KeyField(metadata), <<Digits[n]>>)
        IN Item(record[KeyField(metadata)], record)]

\* The schema of the dataset that was loaded.
SavedMetadata ==
    IF "main_data" \in DOMAIN loaded THEN whole_main_metadata ELSE archive_metadata

InitRoundTrip ==
    /\ \E len \in 0..MaxSaved :
          \/ \E field \in Names(whole_main_metadata), val \in CellValues :
                /\ main_data = SavedData(whole_main_metadata, len, field, val)
                /\ archive_data = << >>
                /\ loaded = [main_data |-> main_data]
          \/ \E field \in Names(archive_metadata), val \in CellValues :
                /\ archive_data = SavedData(archive_metadata, len, field, val)
                /\ main_data = << >>
                /\ loaded = [archive_data |-> archive_data]
    /\ dupe_data = << >>
    /\ dupe_archive_data = << >>
    /\ candidates = << >>
    /\ duplicates = << >>
    /\ pc = "loaded"
    /\ i = 0
    /\ j = 0
    /\ error_log = << >>
    /\ warning_log = << >>
    /\ steps = << >>
    /\ csv_files = << >>
    /\ output = << >>
    /\ args = << >>
    /\ settings = << >>

\* output_data or output_archive_data on the loaded dataset, whose dicts
\* base_output_data relabels in place.
OutputData ==
    /\ pc = "loaded"
    /\ IF "main_data" \in DOMAIN loaded
       THEN /\ output' = <<base_output_data(main_data, whole_main_metadata, base_name)>>
            /\ main_data' = relabel_inner_dicts(main_data,
                                                invert_dict(whole_main_metadata.fields))
            /\ archive_data' = archive_data
       ELSE /\ output' = <<base_output_data(archive_data, archive_metadata, base_name)>>
            /\ archive_data' = relabel_inner_dicts(archive_data,
                                                   invert_dict(archive_metadata.fields))
            /\ main_data' = main_data
    /\ pc' = "written"
    /\ UNCHANGED <<dupe_data, dupe_archive_data, candidates, duplicates, i, j,
                   error_log, warning_log, loaded, steps, csv_files, args, settings>>

\* load_data or load_archive_data(raw=True) on the file written.
ReloadData ==
    /\ pc = "written"
    /\ LET result == base_load_data(CsvFile(output[1].header, output[1].rows),
                                    SavedMetadata)
       IN IF result.raised
          THEN pc' = "raised" /\ UNCHANGED <<main_data, archive_data>>
          ELSE /\ pc' = "reloaded"
               /\ IF "main_data" \in DOMAIN loaded
                  THEN main_data' = result.data /\ archive_data' = archive_data
                  ELSE archive_data' = result.data /\ main_data' = main_data
    /\ UNCHANGED <<dupe_data, dupe_archive_data, candidates, duplicates, i, j,
                   error_log, warning_log, loaded, steps, csv_files, output, args,
                   settings>>

NextRoundTrip ==
    \/ OutputData
    \/ ReloadData

SpecRoundTrip == InitRoundTrip /\ [][NextRoundTrip]_vars

----------------------------------------------------------------------------
(* load_archive_data(csv_file): the cards of an archive file under the     *)
(* photo ids they list                                                     *)

MaxRekeyCards == 2      \* cards in the archive file that is re-keyed

\* for photo_id in v.get('photo_ids') with the list of a photo id replaced
\* by [v] on each pass.
RECURSIVE rekey_card_overwrite(_, _, _)
rekey_card_overwrite(photo_id_dict, v, photo_ids) ==
    IF photo_ids = << >> THEN photo_id_dict
    ELSE rekey_card_overwrite(Put(photo_id_dict, Head(photo_ids), <<v>>), v, Tail(photo_ids))

\* for photo_id in v.get('photo_ids'): the card v is appended to the list
\* of photo_id, which is created when photo_id is no key yet.
RECURSIVE rekey_card(_, _, _)
rekey_card(photo_id_dict, v, photo_ids) ==
    IF photo_ids = << >> THEN photo_id_dict
    ELSE rekey_card(Put(photo_id_dict, Head(photo_ids),
                        Append(IF Head(photo_ids) \in Keys(photo_id_dict)
                               THEN Get(photo_id_dict, Head(photo_ids))
                               ELSE << >>, v)),
                    v, Tail(photo_ids))

\* for k, v in loaded_data.items()
RECURSIVE rekey_cards(_, _)
rekey_cards(photo_id_dict, cards) ==
    IF cards = << >> THEN photo_id_dict
    ELSE rekey_cards(rekey_card(photo_id_dict, Head(cards), Head(cards).photo_ids),
                     Tail(cards))

load_archive_data(csv_file, raw) ==
    LET loaded_data == base_load_data(csv_file, archive_metadata)
    IN IF raw \/ loaded_data.raised THEN loaded_data
       ELSE [raised |-> FALSE, data |-> rekey_cards(<< >>, Values(loaded_data.data))]

\* The archive files that are re-keyed: the n-th card is stored under n and
\* lists any photo ids of the primary file, some of them twice.
RekeyData ==
    UNION {{[n \in 1..len |->
                Item(DbId(n), Card(<<"c", Digits[n]>>, DbId(n), OrigMuseumObj, refs[n]))] :
                refs \in [1..len -> SeqsUpTo(OrigPhotoIds, MaxCardPhotos)]} :
           len \in 0..MaxRekeyCards}

InitLoadArchive ==
    /\ \E cards \in RekeyData :
          csv_files = [orig_archive_file |->
                          CsvFile(expected_header(archive_metadata),
                                  CsvRows(cards, archive_metadata))]
    /\ main_data = << >>
    /\ archive_data = << >>
    /\ dupe_data = << >>
    /\ dupe_archive_data = << >>
    /\ loaded = << >>
    /\ candidates = << >>
    /\ duplicates = << >>
    /\ pc = "load_archive_data"
    /\ i = 0
    /\ j = 0
    /\ error_log = << >>
    /\ warning_log = << >>
    /\ steps = << >>
    /\ output = << >>
    /\ args = << >>
    /\ settings = << >>

\* archive_data = parser.load_archive_data(csv_file); loaded keeps what
\* raw=True gives for the same file.
LoadArchiveData ==
    /\ pc = "load_archive_data"
    /\ LET result == load_archive_data(csv_files.orig_archive_file, FALSE)
       IN IF result.raised
          THEN pc' = "raised" /\ UNCHANGED <<archive_data, loaded>>
          ELSE /\ archive_data' = result.data
               /\ loaded' = [archive_data |->
                                load_archive_data(csv_files.orig_archive_file, TRUE).data]
               /\ pc' = "rekeyed"
    /\ UNCHANGED <<main_data, dupe_data, dupe_archive_data, candidates, duplicates, i, j,
                   error_log, warning_log, steps, csv_files, output, args, settings>>

NextLoadArchive == LoadArchiveData

SpecLoadArchive == InitLoadArchive /\ [][NextLoadArchive]_vars

----------------------------------------------------------------------------
(* Properties of merge_data, stated on the step history.  While the loop   *)
(* over dupe_data runs and after it, steps[n] for n in 1..i is the pass    *)
(* for dupe_data[n]; the passes over dupe_archive_data follow.             *)

DupeSteps == 1..i

ArchiveSteps == (i + 1)..Len(steps)

Label(dupe_entry) == long_id(dupe_entry) \o LABEL_DELIMITER \o dupe_entry.photo_id

\* Some primary record, as loaded, lists ext_id.
ListedBy(ext_id) ==
    {loaded.main_data[m].v.photo_id :
        m \in {l \in DOMAIN loaded.main_data : InSeq(ext_id, loaded.main_data[l].v.ext_ids)}}

\* No earlier secondary record has the long id of the n-th.
FirstWithLongId(n) ==
    \A m \in 1..(n - 1) : long_id(dupe_data[m].v) # long_id(dupe_data[n].v)

\* The merge pass just made, if the last pass was one on a matched pair:
\* the long id of the secondary record was in the ext_ids of the record
\* merge_dupe was called on.
JustMergedPair ==
    /\ pc \in {"dupe_data", "merged"}
    /\ steps # << >>
    /\ steps[Len(steps)].op = "merge_dupe"
    /\ InSeq(long_id(steps[Len(steps)].dupe), steps[Len(steps)].orig.ext_ids)

MergedEntry == Get(main_data, steps[Len(steps)].target)

\* C1 (as claimed): every secondary record whose long_id some primary
\* record lists in ext_ids is merged, never inserted, and at the end of the
\* run its long_id is no key of the candidate index.
C1_EveryListedDupeIsMerged ==
    \A n \in DupeSteps :
        ListedBy(long_id(steps[n].dupe)) # {}
        => /\ steps[n].op = "merge_dupe"
           /\ pc = "done" => long_id(steps[n].dupe) \notin DOMAIN candidates

\* C1 (amended): of the secondary records whose long_id some primary record
\* lists, the first one processed with that long_id is merged into a record
\* stored under the photo id of a primary record that lists it, and every
\* later one with the same long_id is inserted as a new entry; at the end
\* of the run the long_id is no key of the candidate index.
C1_FirstListedDupeIsMerged ==
    \A n \in DupeSteps :
        ListedBy(long_id(steps[n].dupe)) # {}
        => /\ FirstWithLongId(n)
              => /\ steps[n].op = "merge_dupe"
                 /\ steps[n].target \in ListedBy(long_id(steps[n].dupe))
           /\ ~FirstWithLongId(n) => steps[n].op = "insert"
           /\ pc = "done" => long_id(steps[n].dupe) \notin DOMAIN candidates

\* C1 witness: the run is over, a listed secondary record was merged and a
\* later one with the same long_id was inserted.
C1_Witness ==
    /\ pc = "done"
    /\ \E n, m \in DupeSteps :
          /\ n < m
          /\ ListedBy(long_id(steps[n].dupe)) # {}
          /\ long_id(steps[n].dupe) = long_id(steps[m].dupe)
          /\ steps[n].op = "merge_dupe"
          /\ steps[m].op = "insert"

\* C2 (as claimed): no two entries of the duplicate mapping have the same
\* orig_photo_id.
C2_OneDupePerPrimary ==
    \A p, q \in DOMAIN duplicates :
        p # q => duplicates[p].orig_photo_id # duplicates[q].orig_photo_id

\* C2 (amended): no two entries of the duplicate mapping have the same
\* dupe_long_id: an external id is consumed by at most one secondary
\* record, while a primary record that lists several can be the merge
\* target of several.
C2_OneDupePerExtId ==
    \A p, q \in DOMAIN duplicates :
        p # q => duplicates[p].dupe_long_id # duplicates[q].dupe_long_id

\* C2 witness: two secondary records were merged into one primary record
\* through two of its ext_ids.
C2_Witness ==
    \E p, q \in DOMAIN duplicates :
        /\ p # q
        /\ duplicates[p].orig_photo_id = duplicates[q].orig_photo_id
        /\ duplicates[p].dupe_long_id # duplicates[q].dupe_long_id

\* C3: after merge_dupe on a matched pair the ext_ids of the primary record
\* contain the secondary long_id labelled with the secondary photo id and
\* do not contain the bare secondary long_id.
C3_DupeLongIdLabelled ==
    JustMergedPair
    => /\ InSeq(Label(steps[Len(steps)].dupe), MergedEntry.ext_ids)
       /\ ~InSeq(long_id(steps[Len(steps)].dupe), MergedEntry.ext_ids)

\* C4: after merge_dupe on a matched pair the ext_ids of the primary record
\* do not contain the long_id of the primary record, whatever the secondary
\* record listed.
C4_NoOwnLongId ==
    JustMergedPair
    => ~InSeq(long_id(steps[Len(steps)].orig), MergedEntry.ext_ids)

\* Every card of archive references only photo ids that are keys of main.
CardsReferTo(archive, main) ==
    \A n \in DOMAIN archive : Range(archive[n].v.photo_ids) \subseteq Keys(main)

\* C5: if the cards of each loaded archive file reference only photo ids of
\* the main file of their side, then after merge_data every photo id of
\* every card of the merged archive dataset is a key of the merged main
\* dataset.
C5_CardsReferToMergedMain ==
    (/\ pc = "done"
     /\ CardsReferTo(loaded.archive_data, loaded.main_data)
     /\ CardsReferTo(loaded.dupe_archive_data, loaded.dupe_data))
    => CardsReferTo(archive_data, main_data)

\* C5 witness: the run is over, the loaded cards referenced their own side,
\* and a secondary card referenced a merged secondary record whose photo id
\* is no key of the merged main dataset.
C5_Witness ==
    /\ pc = "done"
    /\ CardsReferTo(loaded.archive_data, loaded.main_data)
    /\ CardsReferTo(loaded.dupe_archive_data, loaded.dupe_data)
    /\ \E n \in DOMAIN loaded.dupe_archive_data :
          \E p \in Range(loaded.dupe_archive_data[n].v.photo_ids) :
             p \in DOMAIN duplicates /\ p \notin Keys(main_data)

\* after is before with photo_ids rewritten element-wise through dups.
Repointed(before, after, dups) ==
    /\ Len(after.photo_ids) = Len(before.photo_ids)
    /\ \A n \in DOMAIN before.photo_ids :
          after.photo_ids[n] =
             IF before.photo_ids[n] \in DOMAIN dups
             THEN dups[before.photo_ids[n]].orig_photo_id
             ELSE before.photo_ids[n]

\* C6: the card a pass of the archive loop stores has photo_ids of the same
\* length as the card it read, with the orig_photo_id of the duplicate
\* mapping at the positions whose photo id is a key of the mapping and the
\* photo id that was there at the others.
C6_ElementWiseRewrite ==
    \A n \in ArchiveSteps :
        Repointed(steps[n].data, Get(archive_data, steps[n].key), steps[n].dups)

\* C6 witness: a card with a photo id that is a key of the duplicate
\* mapping and one that is not was rewritten.
C6_Witness ==
    \E n \in ArchiveSteps :
        \E a, b \in DOMAIN steps[n].data.photo_ids :
            /\ steps[n].data.photo_ids[a] \in DOMAIN steps[n].dups
            /\ steps[n].data.photo_ids[b] \notin DOMAIN steps[n].dups

\* C7: after merge_data the merged archive dataset holds, under every key
\* of the secondary archive dataset, the re-pointed secondary card and
\* nothing of a primary card with that key; every primary card with
\* another key is as loaded.
C7_ArchiveFrame ==
    pc = "done"
    => /\ \A n \in DOMAIN loaded.dupe_archive_data :
             LET before == loaded.dupe_archive_data[n].v
                 after == Get(archive_data, loaded.dupe_archive_data[n].k)
             IN /\ loaded.dupe_archive_data[n].k \in Keys(archive_data)
                /\ Repointed(before, after, duplicates)
                /\ after.label = before.label
                /\ after.db_id = before.db_id
                /\ after.museum_obj = before.museum_obj
       /\ \A n \in DOMAIN loaded.archive_data :
             loaded.archive_data[n].k \notin Keys(loaded.dupe_archive_data)
             => /\ loaded.archive_data[n].k \in Keys(archive_data)
                /\ Get(archive_data, loaded.archive_data[n].k) = loaded.archive_data[n].v

\* C7 witness: the run is over, one primary card was replaced by a
\* secondary card with its key and different content, another was not.
C7_Witness ==
    /\ pc = "done"
    /\ \E n \in DOMAIN loaded.archive_data :
          /\ loaded.archive_data[n].k \in Keys(loaded.dupe_archive_data)
          /\ Get(archive_data, loaded.archive_data[n].k).photo_ids
                # loaded.archive_data[n].v.photo_ids
    /\ \E n \in DOMAIN loaded.dupe_archive_data :
          loaded.dupe_archive_data[n].k \notin Keys(loaded.archive_data)

\* C8: every secondary record whose long_id was no key of the candidate
\* index when it was processed is stored in the main dataset under its own
\* photo id with all its fields as loaded, from then on to the end of the
\* run.
C8_InsertedDupeStays ==
    \A n \in DupeSteps :
        ~steps[n].hit
        => /\ steps[n].key \in Keys(main_data)
           /\ Get(main_data, steps[n].key) = steps[n].dupe

\* The keys merge_data must have logged: those of the passes for an
\* unmatched secondary record whose photo id was a key of the main dataset.
RECURSIVE SamePhotoIdKeys(_)
SamePhotoIdKeys(n) ==
    IF n = 0 THEN << >>
    ELSE IF ~steps[n].hit /\ steps[n].had_key
         THEN Append(SamePhotoIdKeys(n - 1), steps[n].key)
         ELSE SamePhotoIdKeys(n - 1)

\* C9: an error is logged for exactly the unmatched secondary records whose
\* photo id was already a key of the main dataset, none for the others nor
\* for a matched one; the pass stores the secondary record in that slot,
\* and the loop went through every secondary record when it is left.
C9_SamePhotoIdLogged ==
    /\ error_log = SamePhotoIdKeys(i)
    /\ (pc = "dupe_data" /\ i > 0 /\ ~steps[i].hit)
       => Get(main_data, steps[i].key) = steps[i].dupe
    /\ pc \in {"dupe_archive_data", "done"} => i = Len(dupe_data)

\* C9 witness: the run is over; an error was logged for the one unmatched
\* secondary record whose photo id was a key, none for a matched one.
C9_Witness ==
    /\ pc = "done"
    /\ \E n, m \in DupeSteps :
          /\ ~steps[n].hit /\ steps[n].had_key
          /\ steps[m].hit
          /\ error_log = <<steps[n].key>>

----------------------------------------------------------------------------
(* Properties of merge_dupe, stated on the pair of the last call           *)

CallOrig == steps[Len(steps)].orig

CallDupe == steps[Len(steps)].dupe

\* C10 (as claimed): every field whose secondary value is empty or equal to
\* the primary value has the primary value unchanged after merge_dupe.
C10_SkippedFieldUnchanged ==
    pc = "merged"
    => \A field \in Fields :
          (CallDupe[field] = << >> \/ CallDupe[field] = CallOrig[field])
          => MergedEntry[field] = CallOrig[field]

\* C10 (amended): every field other than ext_ids whose secondary value is
\* empty or equal to the primary value has the primary value unchanged
\* after merge_dupe.
C10_SkippedFieldUnchangedButExtIds ==
    pc = "merged"
    => \A field \in Fields \ {"ext_ids"} :
          (CallDupe[field] = << >> \/ CallDupe[field] = CallOrig[field])
          => MergedEntry[field] = CallOrig[field]

\* C10 witness: merge_dupe returned on a pair with an empty secondary value
\* against a filled primary value in a field other than ext_ids.
C10_Witness ==
    /\ pc = "merged"
    /\ \E field \in Fields \ {"ext_ids"} :
          CallDupe[field] = << >> /\ CallOrig[field] # << >>
    /\ \E field \in Fields \ {"ext_ids"} :
          CallDupe[field] # << >> /\ CallDupe[field] = CallOrig[field]

\* C11 (as claimed): every field, of any class, whose primary value is
\* empty and whose secondary value is not has the secondary value in the
\* primary record after merge_dupe.
C11_EmptyFieldAdopts ==
    pc = "merged"
    => \A field \in Fields :
          (CallOrig[field] = << >> /\ CallDupe[field] # << >>)
          => MergedEntry[field] = CallDupe[field]

\* C11 (amended): every field other than ext_ids, of any class, whose
\* primary value is empty and whose secondary value is not has the
\* secondary value in the primary record after merge_dupe.
C11_EmptyFieldAdoptsButExtIds ==
    pc = "merged"
    => \A field \in Fields \ {"ext_ids"} :
          (CallOrig[field] = << >> /\ CallDupe[field] # << >>)
          => MergedEntry[field] = CallDupe[field]

\* C11 witness: merge_dupe returned on a pair whose primary record had an
\* identity field, the date or the license empty against a filled secondary
\* value, and the primary record now has that value.
C11_Witness ==
    /\ pc = "merged"
    /\ \E field \in {"photo_id", "db_id", "museum_obj", "date", "license"} :
          /\ CallOrig[field] = << >>
          /\ CallDupe[field] # << >>
          /\ MergedEntry[field] = CallDupe[field]

\* C12: when photo_id, db_id or museum_obj is filled in both records with
\* differing values, the primary record has its own value of that field
\* after merge_dupe.
C12_IdentityFieldKept ==
    pc = "merged"
    => \A field \in {"photo_id", "db_id", "museum_obj"} :
          (/\ CallOrig[field] # << >>
           /\ CallDupe[field] # << >>
           /\ CallOrig[field] # CallDupe[field])
          => MergedEntry[field] = CallOrig[field]

\* C12 witness: merge_dupe returned on a pair whose db_id values are filled
\* and differ (the photo_id and museum_obj values of a pair always do).
C12_Witness ==
    /\ pc = "merged"
    /\ \A field \in {"photo_id", "db_id", "museum_obj"} :
          /\ CallOrig[field] # << >>
          /\ CallDupe[field] # << >>
          /\ CallOrig[field] # CallDupe[field]

\* C13: when the date is filled in both records with differing sequences,
\* the primary record has its own date after merge_dupe and the call logged
\* exactly one warning, the one for the secondary photo id.
C13_DateKeptWithOneWarning ==
    (/\ pc = "merged"
     /\ CallOrig.date # << >>
     /\ CallDupe.date # << >>
     /\ CallOrig.date # CallDupe.date)
    => /\ MergedEntry.date = CallOrig.date
       /\ warning_log = <<CallDupe.photo_id>>

\* C13 witness: merge_dupe returned on a pair whose dates have the same
\* entries in a different order.
C13_Witness ==
    /\ pc = "merged"
    /\ Len(CallOrig.date) = 2
    /\ CallOrig.date[1] # CallOrig.date[2]
    /\ CallDupe.date = <<CallOrig.date[2], CallOrig.date[1]>>
    /\ warning_log = <<CallDupe.photo_id>>

\* C14: when one record has the license PD and the other cc0, whichever
\* side has which, the primary record has the license PD after merge_dupe.
C14_PDAndCc0GivePD ==
    (pc = "merged" /\ {CallOrig.license, CallDupe.license} = {PD, cc0})
    => MergedEntry.license = PD

\* C14 witness: merge_dupe returned PD on a pair whose primary record had
\* cc0 and whose secondary record had PD.
C14_Witness ==
    /\ pc = "merged"
    /\ CallOrig.license = cc0
    /\ CallDupe.license = PD
    /\ MergedEntry.license = PD

\* C15: when the licenses are both filled, differ and are not PD with cc0,
\* the primary record has its own license, "/" and the secondary license
\* after merge_dupe; when they are equal it has its own license.
C15_OtherLicensesJoined ==
    (pc = "merged" /\ CallOrig.license # << >> /\ CallDupe.license # << >>)
    => /\ (CallOrig.license # CallDupe.license
           /\ {CallOrig.license, CallDupe.license} # {PD, cc0})
          => MergedEntry.license = CallOrig.license \o <<"/">> \o CallDupe.license
       /\ CallOrig.license = CallDupe.license
          => MergedEntry.license = CallOrig.license

\* C15 witness: merge_dupe returned the joined licenses on a pair with cc0
\* in the primary record and another license than PD in the secondary one.
C15_Witness ==
    /\ pc = "merged"
    /\ CallOrig.license = cc0
    /\ CallDupe.license = CCBY
    /\ MergedEntry.license = cc0 \o <<"/">> \o CCBY

\* merged holds every element of either list, nothing else, and nothing
\* twice.
IsUnion(merged, orig_value, dupe_value) ==
    /\ Range(merged) = Range(orig_value) \cup Range(dupe_value)
    /\ Cardinality(Range(merged)) = Len(merged)

\* C16 (as claimed): a list-valued field other than date that is filled in
\* both records with differing lists has, after merge_dupe, every element of
\* either list, nothing else, and nothing twice.
C16_ListsUnited ==
    pc = "merged"
    => \A field \in ListFields \ {"date"} :
          (/\ CallOrig[field] # << >>
           /\ CallDupe[field] # << >>
           /\ CallOrig[field] # CallDupe[field])
          => IsUnion(MergedEntry[field], CallOrig[field], CallDupe[field])

\* C16 (amended): a list-valued field other than date and ext_ids that is
\* filled in both records with differing lists has, after merge_dupe, every
\* element of either list, nothing else, and nothing twice.
C16_ListsUnitedButExtIds ==
    pc = "merged"
    => \A field \in ListFields \ {"date", "ext_ids"} :
          (/\ CallOrig[field] # << >>
           /\ CallDupe[field] # << >>
           /\ CallOrig[field] # CallDupe[field])
          => IsUnion(MergedEntry[field], CallOrig[field], CallDupe[field])

\* C16 witness: merge_dupe returned on a pair whose motivord lists share an
\* entry while the secondary one has an entry the primary one lacks, and
\* the shared entry is in the result once.
C16_Witness ==
    /\ pc = "merged"
    /\ Range(CallOrig.motivord) \cap Range(CallDupe.motivord) # {}
    /\ Range(CallDupe.motivord) \ Range(CallOrig.motivord) # {}
    /\ Len(MergedEntry.motivord) < Len(CallOrig.motivord) + Len(CallDupe.motivord)

FreeTextFields == Fields \ ({"photo_id", "db_id", "museum_obj", "license"} \cup ListFields)

\* s without the spaces and periods around it.
Trimmed(s) == LStrip(RStrip(s, {" ", "."}), {" ", "."})

\* The primary text without trailing spaces and periods, ". ", the
\* secondary text, and the whole without leading spaces and periods.
Concatenated(orig_value, dupe_value) ==
    LStrip(RStrip(orig_value, {" ", "."}) \o <<".", " ">> \o dupe_value, {" ", "."})

\* C17: a free-text field filled in both records with values that are equal
\* once the spaces and periods around them are trimmed has the primary
\* value after merge_dupe: nothing is concatenated.
C17_TrimmedEqualTextKept ==
    pc = "merged"
    => \A field \in FreeTextFields :
          (/\ CallOrig[field] # << >>
           /\ CallDupe[field] # << >>
           /\ Trimmed(CallOrig[field]) = Trimmed(CallDupe[field]))
          => MergedEntry[field] = CallOrig[field]

\* C18 (as claimed): a free-text field filled in both records with
\* differing values has, after merge_dupe, the primary value without
\* trailing spaces and periods, ". " and the secondary value, the whole
\* without leading spaces and periods.
C18_DifferingTextConcatenated ==
    pc = "merged"
    => \A field \in FreeTextFields :
          (/\ CallOrig[field] # << >>
           /\ CallDupe[field] # << >>
           /\ CallOrig[field] # CallDupe[field])
          => MergedEntry[field] = Concatenated(CallOrig[field], CallDupe[field])

\* C18 (amended): a free-text field filled in both records with values
\* that still differ once the spaces and periods around them are trimmed
\* has, after merge_dupe, the primary value without trailing spaces and
\* periods, ". " and the secondary value, the whole without leading spaces
\* and periods.
C18_TextDifferingTrimmedConcatenated ==
    pc = "merged"
    => \A field \in FreeTextFields :
          (/\ CallOrig[field] # << >>
           /\ CallDupe[field] # << >>
           /\ Trimmed(CallOrig[field]) # Trimmed(CallDupe[field]))
          => MergedEntry[field] = Concatenated(CallOrig[field], CallDupe[field])

\* C18 witness: merge_dupe returned on a pair whose primary text ends in a
\* period that the concatenation drops, and on whose result the leading
\* strip acted as well.
C18_Witness ==
    /\ pc = "merged"
    /\ CallOrig.description_sv = <<" ", ".">>
    /\ CallDupe.description_sv = <<" ", "a">>
    /\ MergedEntry.description_sv = <<"a">>

----------------------------------------------------------------------------
(* Properties of populate_candidates, stated on the state it returns into  *)

\* The places in the primary file of the records that list ext_id.
Listing(ext_id) ==
    {m \in DOMAIN loaded.main_data : InSeq(ext_id, loaded.main_data[m].v.ext_ids)}

\* The last record of the primary file that lists ext_id.
LastListing(ext_id) ==
    loaded.main_data[CHOOSE m \in Listing(ext_id) : \A l \in Listing(ext_id) : l <= m].v

\* C19: when populate_candidates has returned, the keys of the candidate
\* index are the entries of the ext_ids of all primary records, the
\* candidate of an external id has the photo id and the long id of the last
\* primary record that lists it, and no error was logged.
C19_CandidatesOfLastListing ==
    (pc = "dupe_data" /\ i = 0)
    => /\ DOMAIN candidates =
             UNION {Range(loaded.main_data[m].v.ext_ids) : m \in DOMAIN loaded.main_data}
       /\ \A ext_id \in DOMAIN candidates :
             /\ candidates[ext_id].orig_photo_id = LastListing(ext_id).photo_id
             /\ candidates[ext_id].orig_long_id = long_id(LastListing(ext_id))
       /\ error_log = << >>

\* C19 witness: populate_candidates has returned on a primary file in which
\* two records list the same external id and one of them lists another one
\* as well.
C19_Witness ==
    /\ pc = "dupe_data"
    /\ i = 0
    /\ \E ext_id \in DOMAIN candidates : Cardinality(Listing(ext_id)) = 2
    /\ Cardinality(DOMAIN candidates) = 2

----------------------------------------------------------------------------
(* Properties of main                                                      *)

\* The header check fails on the n-th file of load_files.
HeaderCheckFails(n) ==
    csv_files[LoadOrder[n].option].header #
        expected_header(IF LoadOrder[n].archive THEN archive_metadata ELSE main_metadata)

\* merge_data was entered.
MergeStarted == pc \notin {"load_settings", "exited", "load_files", "raised"}

\* C20: whenever merge_data has been entered, each of the four files has
\* been loaded and passed the header check; and when the header check fails
\* on one of the files, merge_data is never entered, so that no candidate
\* index is built, no loop pass is made, and no file is written.
C20_LoadedBeforeMerge ==
    /\ MergeStarted
       => /\ DOMAIN loaded = {LoadOrder[n].data : n \in DOMAIN LoadOrder}
          /\ \A n \in DOMAIN LoadOrder : ~HeaderCheckFails(n)
    /\ (\E n \in DOMAIN LoadOrder : HeaderCheckFails(n))
       => /\ ~MergeStarted
          /\ candidates = << >>
          /\ duplicates = << >>
          /\ steps = << >>
          /\ output = << >>

\* C20 witness: three files were loaded and the header check on the fourth
\* has failed.
C20_Witness ==
    /\ pc = "raised"
    /\ Cardinality(DOMAIN loaded) = 3
    /\ HeaderCheckFails(4)
    /\ \A n \in 1..3 : ~HeaderCheckFails(n)

\* The options after the command-line values are combined with the
\* defaults.
CombinedOptions == combine_settings(handle_args(args).options, DEFAULT_OPTIONS)

RequiredOptions ==
    {"orig_data_file", "orig_archive_file", "dupe_data_file", "dupe_archive_file",
     "base_name"}

\* C21: when one of the four file paths or base_name has no value after
\* the command-line values are combined with the defaults, main never gets
\* past load_settings: no options are returned and no file is loaded; and
\* when load_settings has returned, every option has a value.
C21_SettingsCompleteOrStopped ==
    /\ (\E key \in RequiredOptions : GetOrNone(CombinedOptions, key) = None)
       => /\ pc \in {"load_settings", "exited"}
          /\ settings = << >>
          /\ loaded = << >>
    /\ pc \notin {"load_settings", "exited"}
       => \A key \in Keys(DEFAULT_OPTIONS) :
             key \in Keys(settings) /\ Get(settings, key) # None

\* C21 witness: load_settings has stopped the process on a command line
\* that names the four files and no base name.
C21_Witness ==
    /\ pc = "exited"
    /\ args = <<<<"f">>, <<"f">>, <<"f">>, <<"f">>>>
    /\ loaded = << >>

----------------------------------------------------------------------------
(* Properties of output and reload                                         *)

\* The dataset written and reloaded, as it is now.
SavedNow == IF "main_data" \in DOMAIN loaded THEN main_data ELSE archive_data

\* C22: for the main and for the archive schema, the header line written
\* is the header expected on load, the records written have the column
\* names as keys, and the records of the file reloaded have the internal
\* names and the values they had when loaded.
C22_OutputAndReload ==
    /\ pc # "raised"
    /\ pc \in {"written", "reloaded"}
       => /\ output[1].header = expected_header(SavedMetadata)
          /\ \A n \in DOMAIN output[1].rows :
                DOMAIN output[1].rows[n] = Keys(SavedMetadata.fields)
    /\ pc = "reloaded"
       => /\ SavedNow = (IF "main_data" \in DOMAIN loaded
                         THEN loaded.main_data ELSE loaded.archive_data)
          /\ \A n \in DOMAIN SavedNow : DOMAIN SavedNow[n].v = Names(SavedMetadata)

\* C22 witness: a main dataset of two records, one of them with an empty
\* license, was written and reloaded.
C22_Witness ==
    /\ pc = "reloaded"
    /\ "main_data" \in DOMAIN loaded
    /\ Len(main_data) = 2
    /\ main_data[1].v.license = << >>
    /\ Len(output[1].rows) = 2

----------------------------------------------------------------------------
(* Properties of load_archive_data                                         *)

\* The cards of the file, in the order of the file.
LoadedCards == Values(loaded.archive_data)

RECURSIVE Occurrences(_, _)
Occurrences(x, s) ==
    IF s = << >> THEN 0
    ELSE (IF Head(s) = x THEN 1 ELSE 0) + Occurrences(x, Tail(s))

\* The cards that list photo_id, in the order of the file, each as many
\* times as it lists photo_id.
RECURSIVE CardsListing(_, _)
CardsListing(photo_id, cards) ==
    IF cards = << >> THEN << >>
    ELSE [n \in 1..Occurrences(photo_id, Head(cards).photo_ids) |-> Head(cards)]
         \o CardsListing(photo_id, Tail(cards))

\* C23: the keys of the mapping load_archive_data returns are the photo
\* ids that occur in the photo_ids of some card; under a photo id are the
\* cards that list it, in the order of the file, each once per occurrence of
\* the photo id in its photo_ids; a card is under as many keys as it lists
\* distinct photo ids.
C23_CardsUnderPhotoIds ==
    pc = "rekeyed"
    => /\ Keys(archive_data) =
             UNION {Range(LoadedCards[n].photo_ids) : n \in DOMAIN LoadedCards}
       /\ \A m, n \in DOMAIN archive_data : archive_data[m].k = archive_data[n].k => m = n
       /\ \A photo_id \in Keys(archive_data) :
             Get(archive_data, photo_id) = CardsListing(photo_id, LoadedCards)
       /\ \A n \in DOMAIN LoadedCards :
             Cardinality({photo_id \in Keys(archive_data) :
                             InSeq(LoadedCards[n], Get(archive_data, photo_id))})
                = Cardinality(Range(LoadedCards[n].photo_ids))

\* C23 witness: a file of two cards was re-keyed, the first card listing
\* two photo ids, the second one listing one of them twice.
C23_Witness ==
    /\ pc = "rekeyed"
    /\ Len(LoadedCards) = 2
    /\ Cardinality(Range(LoadedCards[1].photo_ids)) = 2
    /\ Len(LoadedCards[2].photo_ids) = 2
    /\ Cardinality(Range(LoadedCards[2].photo_ids)) = 1
    /\ Len(Get(archive_data, LoadedCards[2].photo_ids[1])) = 3

----------------------------------------------------------------------------
(* Invariants of merge_data                                                *)

\* The external ids resolved so far.
ResolvedLongIds == {duplicates[s].dupe_long_id : s \in DOMAIN duplicates}

\* C24: from the return of populate_candidates on, the keys of the
\* candidate index and the dupe_long_ids of the duplicate mapping are
\* disjoint and together are the keys the candidate index started with;
\* the entry of the duplicate mapping under s has dupe_photo_id s, the
\* long_id of the secondary record s as dupe_long_id, and an orig_photo_id
\* that is a key of the main dataset.
C24_CandidatesAndDuplicates ==
    pc # "populate_candidates"
    => /\ DOMAIN candidates \cap ResolvedLongIds = {}
       /\ DOMAIN candidates \cup ResolvedLongIds =
             DOMAIN populate_candidates(loaded.main_data)
       /\ \A s \in DOMAIN duplicates :
             /\ duplicates[s].dupe_photo_id = s
             /\ s \in Keys(loaded.dupe_data)
             /\ duplicates[s].dupe_long_id = long_id(Get(loaded.dupe_data, s))
             /\ duplicates[s].orig_photo_id \in Keys(main_data)

\* C24 witness: in the middle of the loop over the secondary records one
\* external id is resolved and another one is still a candidate.
C24_Witness ==
    /\ pc = "dupe_data"
    /\ 0 < i
    /\ i < Len(dupe_data)
    /\ DOMAIN candidates # {}
    /\ DOMAIN duplicates # {}

\* C25: a pass of the loop over the secondary archive cards is made only
\* after a pass of the resolver loop was made for every secondary main
\* record, in the order of the file, and the duplicate mapping it re-points
\* with is the one the run ends with.
C25_ArchiveAfterResolver ==
    \A n \in DOMAIN steps :
        steps[n].op = "process_dupe_archive_entry"
        => /\ n > Len(dupe_data)
           /\ \A m \in 1..Len(dupe_data) :
                 /\ steps[m].op \in {"merge_dupe", "insert"}
                 /\ steps[m].key = dupe_data[m].k
           /\ steps[n].dups = duplicates

\* C25 witness: the run is over, the last of two secondary main records
\* was resolved, and a card that lists its photo id was re-pointed.
C25_Witness ==
    /\ pc = "done"
    /\ Len(dupe_data) = 2
    /\ dupe_data[2].k \in DOMAIN duplicates
    /\ \E n \in DOMAIN steps :
          /\ steps[n].op = "process_dupe_archive_entry"
          /\ InSeq(dupe_data[2].k, steps[n].data.photo_ids)
          /\ steps[n].dups = duplicates

\* C26: at the end of merge_data, for every entry of the duplicate mapping,
\* the record stored under its orig_photo_id has in ext_ids the
\* dupe_long_id labelled with the secondary photo id and has not the bare
\* dupe_long_id.
C26_EveryDuplicateLabelled ==
    pc = "done"
    => \A s \in DOMAIN duplicates :
          LET c == duplicates[s]
              ext_ids == Get(main_data, c.orig_photo_id).ext_ids
          IN /\ InSeq(c.dupe_long_id \o LABEL_DELIMITER \o s, ext_ids)
             /\ ~InSeq(c.dupe_long_id, ext_ids)

\* C27: for every secondary record matched through a candidate, the record
\* merge_data passes to merge_dupe as the primary one is the record of the
\* primary file from which populate_candidates created the candidate: it
\* has the long id of the last primary record listing the long id of the
\* secondary record, and no earlier pass stored another record under its
\* photo id.
C27_PrimaryOfCandidate ==
    \A n \in DupeSteps :
        steps[n].op = "merge_dupe"
        => /\ long_id(steps[n].orig) = long_id(LastListing(long_id(steps[n].dupe)))
           /\ \A m \in 1..(n - 1) :
                 ~(steps[m].op = "insert" /\ steps[m].key = steps[n].target)

\* Every record of the two main datasets, as loaded, is stored under its own
\* photo id, and that photo id is not empty.
LoadedUnderOwnPhotoId ==
    \A data \in {loaded.main_data, loaded.dupe_data} :
        \A m \in DOMAIN data : data[m].k = data[m].v.photo_id /\ data[m].k # << >>

\* C28: when every record of the two loaded main datasets is stored under
\* its own non-empty photo id, then at every point of merge_data every
\* record stored in the main dataset under a key has that key as photo_id.
C28_StoredUnderOwnPhotoId ==
    LoadedUnderOwnPhotoId
    => \A m \in DOMAIN main_data : main_data[m].v.photo_id = main_data[m].k

\* C28 witness: the first loop has ended after merging a secondary record
\* with another photo id into a primary record and storing an unmatched
\* secondary record.
C28_Witness ==
    /\ LoadedUnderOwnPhotoId
    /\ pc = "dupe_archive_data"
    /\ \E n \in DupeSteps :
          /\ steps[n].op = "merge_dupe"
          /\ steps[n].dupe.photo_id # steps[n].orig.photo_id
          /\ steps[n].orig.photo_id = steps[n].target
    /\ \E n \in DupeSteps : steps[n].op = "insert" /\ ~steps[n].had_key

\* The photo ids merge_dupe was called on so far.
MergeTargets == {steps[n].target : n \in {l \in DupeSteps : steps[l].op = "merge_dupe"}}

\* The keys unmatched secondary records were stored under so far.
InsertedKeys == {steps[n].key : n \in {l \in DupeSteps : steps[l].op = "insert"}}

\* C29: merge_data removes no key from the main dataset, and at its end
\* every primary record that no matched secondary record was merged into and
\* whose photo id is not that of an unmatched secondary record has all its
\* fields as loaded.
C29_OtherPrimariesUntouched ==
    /\ Keys(loaded.main_data) \cup InsertedKeys \subseteq Keys(main_data)
    /\ pc = "done"
       => \A m \in DOMAIN loaded.main_data :
             loaded.main_data[m].k \notin MergeTargets \cup InsertedKeys
             => Get(main_data, loaded.main_data[m].k) = loaded.main_data[m].v

\* C29 witness: merge_data has ended; a secondary record was merged into one
\* primary record and changed it, an unmatched one was stored under a new
\* key, and another primary record was neither merged into nor replaced.
C29_Witness ==
    /\ pc = "done"
    /\ \E m \in DOMAIN loaded.main_data :
          /\ loaded.main_data[m].k \in MergeTargets \ InsertedKeys
          /\ Get(main_data, loaded.main_data[m].k) # loaded.main_data[m].v
    /\ \E m \in DOMAIN loaded.main_data :
          /\ loaded.main_data[m].k \notin MergeTargets \cup InsertedKeys
          /\ loaded.main_data[m].v.ext_ids # << >>
    /\ InsertedKeys \ Keys(loaded.main_data) # {}

\* No entry of the list is there twice.
NoneTwice(list) == \A a, b \in DOMAIN list : a # b => list[a] # list[b]

\* No two photo ids of the card are secondary photo ids of duplicates of the
\* same primary record, and no photo id of the card is the primary photo id
\* another one is mapped to.
MappedApart(photo_ids, dups) ==
    \A a, b \in DOMAIN photo_ids :
        (a # b /\ photo_ids[a] \in DOMAIN dups)
        => /\ photo_ids[b] \in DOMAIN dups
              => dups[photo_ids[a]].orig_photo_id # dups[photo_ids[b]].orig_photo_id
           /\ photo_ids[b] \notin DOMAIN dups
              => dups[photo_ids[a]].orig_photo_id # photo_ids[b]

\* C30: for every secondary archive card whose photo_ids holds no photo id
\* twice, the photo_ids process_dupe_archive_entry produces holds none twice
\* either.
C30_NoPhotoIdTwice ==
    \A n \in ArchiveSteps :
        NoneTwice(steps[n].data.photo_ids)
        => NoneTwice(Get(archive_data, steps[n].key).photo_ids)

\* C30, amended: the same for the cards on which no two photo ids are
\* mapped to the same primary photo id and no photo id is the primary photo
\* id another one is mapped to.
C30_NoPhotoIdTwiceWhenMappedApart ==
    \A n \in ArchiveSteps :
        (/\ NoneTwice(steps[n].data.photo_ids)
         /\ MappedApart(steps[n].data.photo_ids, steps[n].dups))
        => NoneTwice(Get(archive_data, steps[n].key).photo_ids)

\* C30 witness: a card with two photo ids, one of them a key of the
\* duplicate mapping and the other neither a key nor the primary photo id
\* of the first, was rewritten.
C30_Witness ==
    \E n \in ArchiveSteps :
        /\ Len(steps[n].data.photo_ids) = 2
        /\ NoneTwice(steps[n].data.photo_ids)
        /\ MappedApart(steps[n].data.photo_ids, steps[n].dups)
        /\ \E a, b \in DOMAIN steps[n].data.photo_ids :
              /\ steps[n].data.photo_ids[a] \in DOMAIN steps[n].dups
              /\ steps[n].data.photo_ids[b] \notin DOMAIN steps[n].dups
        /\ Get(archive_data, steps[n].key).photo_ids # steps[n].data.photo_ids

====
